---------------------------- MODULE Spec2Model ----------------------------
(***************************************************************************)
(* A model of the plane-stress topology-optimization engine TopoAnalysis   *)
(* of examples/python/topo_optimization.py: the constructor (mesh, DOF     *)
(* map, boundary DOFs, density filter F, load vector f), the element       *)
(* stiffness kernel, the assembly / boundary elimination / factorization / *)
(* solve of analyze, and the objective and gradient evaluations.           *)
(*                                                                         *)
(* Floating point.  numpy's binary64 numbers are modelled by a decimal     *)
(* floating-point format with a four-digit significand and round-half-even *)
(* after every operation: a number is <<m, e>>, standing for m * 10^e,     *)
(* with 1000 <= |m| <= 9999, or <<0, 0>>.  Every arithmetic operation of   *)
(* the source is one rounded operation of the model, in the source's       *)
(* order.  The significand is four digits so that every intermediate       *)
(* product stays below 2^31.                                               *)
(***************************************************************************)
EXTENDS Integers, Sequences, FiniteSets, TLC

VARIABLES self, K, LU, u, ret

vars == <<self, K, LU, u, ret>>

-----------------------------------------------------------------------------
(* Decimal floating point, significand of four digits.                     *)

MantLo == 10 * 10 * 10
MantHi == 10 * MantLo

Abs(n) == IF n < 0 THEN -n ELSE n
Sgn(n) == IF n < 0 THEN -1 ELSE IF n = 0 THEN 0 ELSE 1
Max(a, b) == IF a < b THEN b ELSE a
Min(a, b) == IF a < b THEN a ELSE b

Pow10(k) == 10 ^ k

\* The function f itself, held as an explicit array of its values.
Dense(f) == f @@ <<>>

\* Body(e), with e evaluated before Body is (call by value).
LetIn(e, Body(_)) == CHOOSE y \in { Body(x) : x \in {e} } : TRUE

\* Number of decimal digits of n > 0 (n < 2^31).
NDigits(n) ==
    IF n < 10 THEN 1 ELSE IF n < 100 THEN 2 ELSE IF n < 1000 THEN 3
    ELSE IF n < 10000 THEN 4 ELSE IF n < 100000 THEN 5
    ELSE IF n < 1000000 THEN 6 ELSE IF n < 10000000 THEN 7
    ELSE IF n < 100000000 THEN 8 ELSE IF n < 1000000000 THEN 9 ELSE 10

\* a / d for a >= 0, d > 0, rounded to the nearest integer, ties to even;
\* sticky says that a stands for a value slightly above a.
RoundDiv(a, d, sticky) ==
    LET q == a \div d
        r == a % d
    IN  IF 2 * r > d \/ (2 * r = d /\ (sticky \/ q % 2 = 1)) THEN q + 1 ELSE q

\* The float nearest to m * 10^e (m any integer), sticky as in RoundDiv.
NormS(m, e, sticky) ==
    IF m = 0 THEN <<0, 0>>
    ELSE LET a == Abs(m)
             k == NDigits(a) - 4
         IN  IF k <= 0 THEN <<m * Pow10(-k), e + k>>
             ELSE LET q == RoundDiv(a, Pow10(k), sticky)
                  IN  IF q = MantHi THEN <<Sgn(m) * MantLo, e + k + 1>>
                      ELSE <<Sgn(m) * q, e + k>>

Norm(m, e) == NormS(m, e, FALSE)

FZero == <<0, 0>>
FOne == <<MantLo, -3>>
FInt(n) == Norm(n, 0)
\* The decimal literal n / 10^d.
FDec(n, d) == Norm(n, -d)

FNeg(a) == <<-a[1], a[2]>>

FMul(a, b) == Norm(a[1] * b[1], a[2] + b[2])

\* a / b for b # 0.
FDiv(a, b) ==
    IF a[1] = 0 THEN FZero
    ELSE LET n == Abs(a[1]) * Pow10(5)
             d == Abs(b[1])
             q == n \div d
             s == Sgn(a[1]) * Sgn(b[1])
         IN  NormS(s * q, a[2] - b[2] - 5, n % d # 0)

FAdd(a, b) ==
    IF a[1] = 0 THEN b
    ELSE IF b[1] = 0 THEN a
    ELSE LET hi == IF a[2] >= b[2] THEN a ELSE b
             lo == IF a[2] >= b[2] THEN b ELSE a
             diff == hi[2] - lo[2]
         IN  IF diff >= 6 THEN hi
             ELSE Norm(hi[1] * Pow10(diff) + lo[1], lo[2])

FSub(a, b) == FAdd(a, FNeg(b))

FLt(a, b) == FSub(a, b)[1] < 0
FAbs(a) == <<Abs(a[1]), a[2]>>

\* floor(sqrt(n)) for 0 <= n < 10^8, by bisection on lo <= root < hi.
RECURSIVE ISqrtB(_, _, _)
ISqrtB(n, lo, hi) ==
    IF hi - lo <= 1 THEN lo
    ELSE LET mid == (lo + hi) \div 2
         IN  IF mid * mid <= n THEN ISqrtB(n, mid, hi) ELSE ISqrtB(n, lo, mid)

\* sqrt(a) for a >= 0, correctly rounded.
FSqrt(a) ==
    IF a[1] = 0 THEN FZero
    ELSE LET odd == a[2] % 2 = 1
             n == IF odd THEN a[1] * Pow10(3) ELSE a[1] * Pow10(4)
             e == IF odd THEN (a[2] - 3) \div 2 ELSE (a[2] - 4) \div 2
             r == ISqrtB(n, 0, MantHi)
             q == IF n > r * r + r THEN r + 1 ELSE r
         IN  Norm(q, e)

\* ceil(a) as an integer, for |a| < 10^5.
FCeil(a) ==
    IF a[1] = 0 THEN 0
    ELSE IF a[2] >= 0 THEN a[1] * Pow10(a[2])
    ELSE IF a[2] < -4 THEN (IF a[1] > 0 THEN 1 ELSE 0)
    ELSE LET d == Pow10(-a[2])
             q == Abs(a[1]) \div d
             r == Abs(a[1]) % d
         IN  IF a[1] > 0 THEN (IF r = 0 THEN q ELSE q + 1) ELSE -q

\* x ** n for an integer n >= 0, by repeated multiplication.
RECURSIVE FPow(_, _)
FPow(x, n) == IF n = 0 THEN FOne ELSE FMul(FPow(x, n - 1), x)

\* The sum of the floats of a sequence, left to right (np.sum, np.dot).
RECURSIVE FSumSeq(_)
FSumSeq(s) ==
    IF s = <<>> THEN FZero
    ELSE FAdd(FSumSeq(SubSeq(s, 1, Len(s) - 1)), s[Len(s)])

-----------------------------------------------------------------------------
(* The mesh, the DOF map and the boundary DOFs (constructor).              *)

\* The 0-based array <<g(0), ..., g(n-1)>>.
Range0(n) == [k \in 1..n |-> k - 1]

nvars(nx, ny) == 2 * (nx + 1) * (ny + 1)
uvars(nx, j, i) == 2 * (j * (nx + 1) + i)
vvars(nx, j, i) == 2 * (j * (nx + 1) + i) + 1
nelems(nx, ny) == nx * ny

\* The corners taken counter-clockwise: bottom-left, bottom-right,
\* top-right, top-left.
elem_vars_row_ccw(nx, elem) ==
    LET i == elem % nx
        j == elem \div nx
    IN  << uvars(nx, j, i),         vvars(nx, j, i),
           uvars(nx, j, i + 1),     vvars(nx, j, i + 1),
           uvars(nx, j + 1, i + 1), vvars(nx, j + 1, i + 1),
           uvars(nx, j + 1, i),     vvars(nx, j + 1, i) >>

\* Row elem of elem_vars: the 8 DOF indices of element elem = i + j*nx.
elem_vars_row(nx, elem) ==
    LET i == elem % nx
        j == elem \div nx
    IN  << uvars(nx, j, i),         vvars(nx, j, i),
           uvars(nx, j, i + 1),     vvars(nx, j, i + 1),
           uvars(nx, j + 1, i),     vvars(nx, j + 1, i),
           uvars(nx, j + 1, i + 1), vvars(nx, j + 1, i + 1) >>

elem_vars(nx, ny) ==
    Dense([elem \in 0..(nelems(nx, ny) - 1) |-> elem_vars_row(nx, elem)])

\* bcs = hstack(uvars[:,0], vvars[:,0]).
bcs(nx, ny) ==
    [k \in 1..(2 * (ny + 1)) |->
        IF k <= ny + 1 THEN uvars(nx, k - 1, 0) ELSE vvars(nx, k - ny - 2, 0)]

SeqRange(s) == {s[k] : k \in 1..Len(s)}

-----------------------------------------------------------------------------
(* The density filter F (constructor).                                     *)

\* ri = int(np.ceil(r0)).
FilterHalfWidth(r0) == FCeil(r0)

\* The distance |i - ii| + |j - jj| in place of the Euclidean distance.
FilterDistManhattan(i, j, ii, jj) == FInt(Abs(i - ii) + Abs(j - jj))

\* r = np.sqrt((i - ii)**2 + (j - jj)**2).
FilterDist(i, j, ii, jj) == FSqrt(FInt((i - ii) * (i - ii) + (j - jj) * (j - jj)))

\* The candidate (ii, jj) lies in the loops' ranges
\* range(max(0, j-ri), min(nyelems, j+ri+1)) x range(max(0, i-ri), min(nxelems, i+ri+1)).
InFilterBox(nx, ny, ri, i, j, ii, jj) ==
    /\ Max(0, j - ri) <= jj /\ jj < Min(ny, j + ri + 1)
    /\ Max(0, i - ri) <= ii /\ ii < Min(nx, i + ri + 1)

\* wvars of element (i, j): the elements appended, in the loops' order
\* (jj outer, ii inner: ascending ii + jj*nx).
FilterVars(nx, ny, r0, i, j) ==
    LET ri == FilterHalfWidth(r0)
        keep(e) == /\ InFilterBox(nx, ny, ri, i, j, e % nx, e \div nx)
                   /\ FLt(FilterDist(i, j, e % nx, e \div nx), r0)
    IN  SelectSeq(Range0(nelems(nx, ny)), keep)

\* The raw weight (r0 - r)/r0.
RawWeight(r0, r) == FDiv(FSub(r0, r), r0)

\* w of element (i, j) before normalization.
FilterRaw(nx, ny, r0, i, j) ==
    LET wv == FilterVars(nx, ny, r0, i, j)
    IN  [k \in 1..Len(wv) |->
            RawWeight(r0, FilterDist(i, j, wv[k] % nx, wv[k] \div nx))]

\* The weights left as they are: w /= np.sum(w) not carried out.
NormalizeWeightsNot(w) == w

\* w /= np.sum(w).
NormalizeWeights(w) ==
    LET s == FSumSeq(w) IN [k \in 1..Len(w) |-> FDiv(w[k], s)]

\* Row i + j*nx of F: F[i + j*nx, wvars] = w, every other entry 0.
FilterRow(nx, ny, r0, elem) ==
    LET i == elem % nx
        j == elem \div nx
        wv == FilterVars(nx, ny, r0, i, j)
        w == NormalizeWeights(FilterRaw(nx, ny, r0, i, j))
    IN  [e2 \in 0..(nelems(nx, ny) - 1) |->
            IF \E k \in 1..Len(wv) : wv[k] = e2
            THEN w[CHOOSE k \in 1..Len(wv) : wv[k] = e2]
            ELSE FZero]

BuildFilter(nx, ny, r0) ==
    [elem \in 0..(nelems(nx, ny) - 1) |-> FilterRow(nx, ny, r0, elem)]

\* The load vector: f[vvars[0, nxelems]] = -1e3, f[bcs] = 0.
BuildLoad(nx, ny) ==
    LET b == SeqRange(bcs(nx, ny))
    IN  [d \in 0..(nvars(nx, ny) - 1) |->
            IF d \in b THEN FZero
            ELSE IF d = vvars(nx, 0, nx) THEN FInt(-1000) ELSE FZero]

-----------------------------------------------------------------------------
(* The element stiffness kernel (compute_kelem).                           *)

\* gauss_pts = [-1.0/np.sqrt(3.0), 1.0/np.sqrt(3.0)].
gauss_pts == << FDiv(FInt(-1), FSqrt(FInt(3))), FDiv(FOne, FSqrt(FInt(3))) >>

\* The constitutive matrix C of Poisson ratio nu, rows and columns 1..3.
Cmat(nu) ==
    LET c == FDiv(FOne, FSub(FOne, FMul(nu, nu)))
        raw == << <<FOne, nu, FZero>>,
                  <<nu, FOne, FZero>>,
                  <<FZero, FZero, FMul(FDec(5, 1), FSub(FOne, nu))>> >>
    IN  Dense([m \in 1..3 |-> Dense([n \in 1..3 |-> FMul(c, raw[m][n])])])

\* q*np.array(v).
Scale(q, v) == Dense([k \in DOMAIN v |-> FMul(q, v[k])])

\* The B matrix (3 x 8) at the Gauss point (x, y); N = <<Nx, Ny>>.
Bmat(xi, eta, x, y) ==
    LetIn(<< Scale(FMul(FDec(25, 2), xi),
                   <<FSub(y, FOne), FSub(FOne, y), FSub(FInt(-1), y), FAdd(FOne, y)>>),
             Scale(FMul(FDec(25, 2), eta),
                   <<FSub(x, FOne), FSub(FInt(-1), x), FSub(FOne, x), FAdd(FOne, x)>>) >>,
          LAMBDA N :
              << << N[1][1], FZero, N[1][2], FZero, N[1][3], FZero, N[1][4], FZero >>,
                 << FZero, N[2][1], FZero, N[2][2], FZero, N[2][3], FZero, N[2][4] >>,
                 << N[2][1], N[1][1], N[2][2], N[1][2], N[2][3], N[1][3], N[2][4], N[1][4] >> >>)

\* np.dot of two vectors of three entries.
Dot3(v, w) == FSumSeq([k \in 1..3 |-> FMul(v[k], w[k])])

\* area*np.dot(B.transpose(), np.dot(C, B)), rows and columns 1..8.
KelemTerm(area, C, B) ==
    LetIn(Dense([m \in 1..3 |-> Dense([b \in 1..8 |->
              Dot3(C[m], <<B[1][b], B[2][b], B[3][b]>>)])]),
          LAMBDA CB :
              Dense([a \in 1..8 |-> Dense([b \in 1..8 |->
                  FMul(area, Dot3(<<B[1][a], B[2][a], B[3][a]>>,
                                  <<CB[1][b], CB[2][b], CB[3][b]>>))])]))

MatAdd8(A, B) == Dense([a \in 1..8 |-> Dense([b \in 1..8 |-> FAdd(A[a][b], B[a][b])])])

\* kelem += term, for the first n terms in their order, from np.zeros((8, 8)).
RECURSIVE MatSum8(_, _)
MatSum8(terms, n) ==
    IF n = 0 THEN Dense([a \in 1..8 |-> Dense([b \in 1..8 |-> FZero])])
    ELSE MatAdd8(MatSum8(terms, n - 1), terms[n])

\* kelem of an object with fields nxelems, nyelems, Lx, Ly, nu: c = <<C, xi,
\* eta>>, and the Gauss points (x, y) in the order of the two loops.
compute_kelem(o) ==
    LetIn(<< Cmat(o.nu),
             FDiv(FMul(FInt(2), FInt(o.nxelems)), o.Lx),
             FDiv(FMul(FInt(2), FInt(o.nyelems)), o.Ly) >>, LAMBDA c :
    LetIn(FDiv(FOne, FMul(c[2], c[3])), LAMBDA area :
        MatSum8(Dense([g \in 1..4 |->
                    KelemTerm(area, c[1],
                              Bmat(c[2], c[3], gauss_pts[((g - 1) \div 2) + 1],
                                   gauss_pts[((g - 1) % 2) + 1]))]), 4)))

-----------------------------------------------------------------------------
(* Assembly, boundary elimination, factorization and solve (analyze).      *)

\* The COO triplets <<row, col, value>> of element k, in the order of
\* data.flatten(): data[k, a, b] = E[k]*kelem[a, b] at
\* (i[k, a, b], j[k, a, b]) = (elem_vars[k, a], elem_vars[k, b]).
ElemTriplets(ev, E, kelem, k) ==
    Dense([t \in 1..64 |->
        LET a == ((t - 1) \div 8) + 1
            b == ((t - 1) % 8) + 1
        IN  << ev[k][a], ev[k][b], FMul(E[k + 1], kelem[a][b]) >>])

\* data.flatten() with i.flatten(), j.flatten(): the triplets of elements
\* lo..hi, in ascending element order.
RECURSIVE Triplets(_, _, _, _, _)
Triplets(ev, E, kelem, lo, hi) ==
    IF hi < lo THEN <<>>
    ELSE IF lo = hi THEN ElemTriplets(ev, E, kelem, lo)
    ELSE LET mid == (lo + hi) \div 2
         IN  Triplets(ev, E, kelem, lo, mid) \o Triplets(ev, E, kelem, mid + 1, hi)

\* One triplet stored over the entry: a duplicate replaces what is there.
ScatterSet(M, t) == [M EXCEPT ![t[1]][t[2]] = t[3]]

\* One triplet added into the matrix: duplicate entries are added together.
ScatterAdd(M, t) == [M EXCEPT ![t[1]][t[2]] = FAdd(@, t[3])]

\* sparse.coo_matrix((data, (i, j)), shape=(nvars, nvars)) as a dense matrix:
\* the triplets lo..hi of trips added into M in their order.
RECURSIVE CooSum(_, _, _, _)
CooSum(M, trips, lo, hi) ==
    IF hi < lo THEN M
    ELSE IF lo = hi THEN ScatterAdd(M, trips[lo])
    ELSE LET mid == (lo + hi) \div 2
         IN  LetIn(CooSum(M, trips, lo, mid),
                   LAMBDA left : CooSum(left, trips, mid + 1, hi))

ZeroMatrix(n) == Dense([r \in 0..(n - 1) |-> Dense([c \in 0..(n - 1) |-> FZero])])

\* K before the boundary conditions are applied.
Assemble(o, E) ==
    LET nx == o.nxelems
        ny == o.nyelems
    IN  LetIn(compute_kelem(o), LAMBDA kelem :
        LetIn(Triplets(elem_vars(nx, ny), E, kelem, 0, nelems(nx, ny) - 1),
              LAMBDA trips : CooSum(ZeroMatrix(nvars(nx, ny)), trips, 1, Len(trips))))

\* ApplyBCs without K[:, bcs] = 0.0: the columns of the boundary DOFs stay.
ApplyBCsRowsOnly(M, b) ==
    Dense([r \in DOMAIN M |-> Dense([c \in DOMAIN M |->
        IF r \in b THEN (IF r = c THEN FOne ELSE FZero) ELSE M[r][c]])])

\* K[:, bcs] = 0.0; K[bcs, :] = 0.0; K[bcs, bcs] = 1.0.
ApplyBCs(M, b) ==
    Dense([r \in DOMAIN M |-> Dense([c \in DOMAIN M |->
        IF r \in b \/ c \in b THEN (IF r = c THEN FOne ELSE FZero) ELSE M[r][c]])])

\* |a| < |b| (both normalized).
FAbsLt(a, b) ==
    IF b[1] = 0 THEN FALSE
    ELSE IF a[1] = 0 THEN TRUE
    ELSE a[2] < b[2] \/ (a[2] = b[2] /\ Abs(a[1]) < Abs(b[1]))

\* The first row among c..n-1 of largest magnitude in column c.
PivotRow(A, c, n) ==
    CHOOSE r \in c..(n - 1) :
        /\ \A q \in c..(n - 1) : ~FAbsLt(A[r][c], A[q][c])
        /\ \A q \in c..(r - 1) : FAbsLt(A[q][c], A[r][c])

\* One column of the LU factorization with partial pivoting, on the record
\* [ok, A, perm]: A holds U on and above the diagonal and the multipliers of
\* L below it; perm[r] is the row of the input now at position r.
LUStep(lu, c, n) ==
    IF ~lu.ok THEN lu
    ELSE LET p == PivotRow(lu.A, c, n)
         IN  IF lu.A[p][c][1] = 0 THEN [lu EXCEPT !.ok = FALSE]
             ELSE LET S == [lu.A EXCEPT ![c] = lu.A[p], ![p] = lu.A[c]]
                      piv == S[c][c]
                      elim(r) ==
                          IF S[r][c][1] = 0 THEN S[r]
                          ELSE LET l == FDiv(S[r][c], piv)
                               IN  Dense([k \in 0..(n - 1) |->
                                      IF k < c THEN S[r][k]
                                      ELSE IF k = c THEN l
                                      ELSE FSub(S[r][k], FMul(l, S[c][k]))])
                  IN  [ok |-> TRUE,
                       A |-> Dense([r \in 0..(n - 1) |-> IF r <= c THEN S[r] ELSE elim(r)]),
                       perm |-> [lu.perm EXCEPT ![c] = lu.perm[p], ![p] = lu.perm[c]]]

RECURSIVE LUSteps(_, _, _)
LUSteps(M, c, n) ==
    IF c < 0 THEN [ok |-> TRUE, A |-> M, perm |-> Dense([r \in 0..(n - 1) |-> r])]
    ELSE LetIn(LUSteps(M, c - 1, n), LAMBDA lu : LUStep(lu, c, n))

\* linalg.dsolve.factorized(K): the factors, or ok = FALSE when a pivot is
\* exactly zero (RuntimeError: the factor is exactly singular).
factorized(M) == LET n == Cardinality(DOMAIN M) IN LUSteps(M, n - 1, n)

\* acc - sum of row[k]*y[k] for k in lo..hi, in ascending k.
RECURSIVE SubDot(_, _, _, _, _)
SubDot(acc, row, y, lo, hi) ==
    IF hi < lo THEN acc
    ELSE FSub(SubDot(acc, row, y, lo, hi - 1), FMul(row[hi], y[hi]))

\* Forward substitution L y = P b, entries 0..r of y.
RECURSIVE FwdSub(_, _, _)
FwdSub(lu, b, r) ==
    IF r < 0 THEN <<>>
    ELSE LetIn(FwdSub(lu, b, r - 1), LAMBDA y :
             Dense([k \in 0..r |->
                IF k < r THEN y[k]
                ELSE SubDot(b[lu.perm[r]], lu.A[r], y, 0, r - 1)]))

\* Back substitution U x = y, entries r..n-1 of x.
RECURSIVE BackSub(_, _, _, _)
BackSub(lu, y, r, n) ==
    IF r >= n THEN <<>>
    ELSE LetIn(BackSub(lu, y, r + 1, n), LAMBDA x :
             Dense([k \in r..(n - 1) |->
                IF k > r THEN x[k]
                ELSE FDiv(SubDot(y[r], lu.A[r], x, r + 1, n - 1), lu.A[r][r])]))

\* self.LU(b): the solution of K x = b from the factors.
LUSolve(lu, b) ==
    LET n == Cardinality(DOMAIN b)
    IN  LetIn(FwdSub(lu, b, n - 1), LAMBDA y : BackSub(lu, y, 0, n))

-----------------------------------------------------------------------------
(* The object and its methods.                                             *)

\* No TopoAnalysis object has been constructed yet.
NoObject == [built |-> FALSE]
\* An attribute (self.K, self.u) that has not been assigned yet.
Unset == <<>>
\* self.LU before its first assignment.
NoLU == [ok |-> FALSE, A |-> <<>>, perm |-> <<>>]

Elems(o) == nelems(o.nxelems, o.nyelems)
BcSet(o) == SeqRange(bcs(o.nxelems, o.nyelems))

\* The fields __init__ sets.  The argument nu is not stored: self.nu = 0.3.
NewObject(nxelems, nyelems, Lx, Ly, r0, p, E0, nu) ==
    [built |-> TRUE, nxelems |-> nxelems, nyelems |-> nyelems,
     Lx |-> Lx, Ly |-> Ly, r0 |-> r0, p |-> p, E0 |-> E0,
     nu |-> FDec(3, 1),
     F |-> BuildFilter(nxelems, nyelems, r0),
     f |-> BuildLoad(nxelems, nyelems)]

\* F.dot(x) for x of the right length (a sequence, x[e + 1] for element e).
FilterDot(o, x) ==
    LET n == Elems(o)
    IN  Dense([k \in 1..n |-> FSumSeq([c \in 1..n |-> FMul(o.F[k - 1][c - 1], x[c])])])

\* (F.transpose()).dot(d).
FilterTDot(o, d) ==
    LET n == Elems(o)
    IN  Dense([c \in 1..n |-> FSumSeq([k \in 1..n |-> FMul(o.F[k - 1][c - 1], d[k])])])

\* E = self.E0*xfilter**self.p.
Modulus(o, xfilter) ==
    Dense([k \in 1..Len(xfilter) |-> FMul(o.E0, FPow(xfilter[k], o.p))])

\* area = (self.Lx/self.nxelems)*(self.Ly/self.nyelems).
ElemArea(o) == FMul(FDiv(o.Lx, FInt(o.nxelems)), FDiv(o.Ly, FInt(o.nyelems)))

\* mass(x) = area*np.sum(x), whatever the length of x.
mass(o, x) == FMul(ElemArea(o), FSumSeq(x))

\* mass_grad(x) = area*np.ones(x.shape).
mass_grad(o, x) == [k \in 1..Len(x) |-> FMul(ElemArea(o), FOne)]

\* What analyze(E) leaves behind: the new K, and when the factorization
\* succeeds (ok) the new LU and u.
analyze(o, E) ==
    LetIn(ApplyBCs(Assemble(o, E), BcSet(o)), LAMBDA Knew :
    LetIn(factorized(Knew), LAMBDA lu :
        IF lu.ok THEN [ok |-> TRUE, K |-> Knew, LU |-> lu, u |-> LUSolve(lu, o.f)]
        ELSE [ok |-> FALSE, K |-> Knew, LU |-> NoLU, u |-> Unset]))

\* np.dot(a, b) over the DOFs 0..n-1.
Dot0(a, b, n) == FSumSeq([k \in 1..n |-> FMul(a[k - 1], b[k - 1])])

\* 0.5*np.dot(self.f, self.u).
ComplianceValue(o, uu) == FMul(FDec(5, 1), Dot0(o.f, uu, nvars(o.nxelems, o.nyelems)))

\* np.dot(evars, np.dot(kelem, evars)) for the 8 displacements evars.
ElemEnergy(kelem, evars) ==
    LetIn(Dense([a \in 1..8 |-> FSumSeq([b \in 1..8 |-> FMul(kelem[a][b], evars[b])])]),
          LAMBDA ku : FSumSeq([a \in 1..8 |-> FMul(evars[a], ku[a])]))

\* The loop body of compliance_grad for element i: dcdxf[i].
dcdxf(o, kelem, uu, xfilter, i) ==
    LET ev == elem_vars_row(o.nxelems, i)
        evars == Dense([a \in 1..8 |-> uu[ev[a]]])
        dxfdE == FMul(FMul(o.E0, FInt(o.p)), FPow(xfilter[i + 1], o.p - 1))
    IN  FMul(FMul(FDec(-5, 1), ElemEnergy(kelem, evars)), dxfdE)

\* The value compliance_grad(x) computes from the displacement field uu.
GradFromU(o, uu, x) ==
    LetIn(FilterDot(o, x), LAMBDA xfilter :
    LetIn(compute_kelem(o), LAMBDA kelem :
    LetIn(Dense([k \in 1..Elems(o) |-> dcdxf(o, kelem, uu, xfilter, k - 1)]),
          LAMBDA d : FilterTDot(o, d))))

-----------------------------------------------------------------------------
(* The inputs of the runs.                                                 *)

\* Meshes of the evaluation runs: nxelems in 1..MaxEvalNx, nyelems in 1..MaxEvalNy.
MaxEvalNx == 2
MaxEvalNy == 2
\* Meshes of the construction runs.
MaxNx == 3
MaxNy == 3
\* Filter radii r0 = h/2 for h in -1..MaxR0Half.
MaxR0Half == 5

Half(h) == FDec(5 * h, 1)
R0Halves == (-1)..MaxR0Half

Uniform(n, d) == [k \in 1..n |-> d]
\* The first entry d, every other entry 1.
Ramp(n, d) == [k \in 1..n |-> IF k = 1 THEN d ELSE FOne]

\* Density vectors handed to an object of n elements: inside the bounds
\* [1e-3, 1], all zero, and of a wrong length.
XValues(n) ==
    { Uniform(n, FOne), Uniform(n, FDec(5, 1)), Ramp(n, FDec(5, 1)),
      Uniform(n, FZero), Uniform(n + 1, FOne) }

\* Modulus arrays handed to analyze directly.
EValues(n) == { Uniform(n, FOne), Ramp(n, FDec(125, 3)) }

\* The radii of the evaluation runs, in halves.
EvalR0Halves == {2, 3}

\* The objects of the evaluation runs.
EvalObjects ==
    { NewObject(nx, ny, FInt(nx), FInt(ny), Half(h), 3, FOne, FDec(3, 1)) :
        nx \in 1..MaxEvalNx, ny \in 1..MaxEvalNy, h \in EvalR0Halves }

\* The density vectors of the right length among XValues.
XFit(o) == { x \in XValues(Elems(o)) : Len(x) = Elems(o) }

\* The modulus arrays analyze receives in the evaluation runs.
Moduli(o) == { Modulus(o, FilterDot(o, x)) : x \in XFit(o) } \cup EValues(Elems(o))

\* analyze and GradFromU are pure: their values on the inputs of the
\* evaluation runs are computed once, and the calls look them up.
\* AnalyzeTable[<<o, E>>] = analyze(o, E).
AnalyzeTable ==
    Dense([k \in UNION { { <<o, E>> : E \in Moduli(o) } : o \in EvalObjects } |->
              analyze(k[1], k[2])])

Analyzed(o, E) == AnalyzeTable[<<o, E>>]

\* The displacement fields an object of the evaluation runs can hold.
Fields(o) == { Analyzed(o, E).u : E \in { E \in Moduli(o) : Analyzed(o, E).ok } }

\* GradTable[<<o, uu, x>>] = GradFromU(o, uu, x).
GradTable ==
    Dense([k \in UNION { { <<o, uu, x>> : uu \in Fields(o), x \in XFit(o) } :
                         o \in EvalObjects } |->
              GradFromU(k[1], k[2], k[3])])

Graded(o, uu, x) == GradTable[<<o, uu, x>>]

-----------------------------------------------------------------------------
(* The calls.                                                              *)

\* The outcome of compliance(x) on the object o with the scratch fields
\* cur = [K, LU, u]: the exception or "ok", the scratch fields afterwards and
\* the value returned.  F.dot(x) raises ValueError on a length mismatch;
\* analyze assigns self.K before the factorization can raise.
compliance(o, cur, x) ==
    IF Len(x) # Elems(o)
    THEN [status |-> "ValueError", K |-> cur.K, LU |-> cur.LU, u |-> cur.u, val |-> FZero]
    ELSE LetIn(Analyzed(o, Modulus(o, FilterDot(o, x))), LAMBDA r :
         IF r.ok
         THEN [status |-> "ok", K |-> r.K, LU |-> r.LU, u |-> r.u,
               val |-> ComplianceValue(o, r.u)]
         ELSE [status |-> "RuntimeError", K |-> r.K, LU |-> cur.LU, u |-> cur.u,
               val |-> FZero])

\* The outcome of compliance_grad(x): it reads self.u and assigns nothing.
compliance_grad(o, cur, x) ==
    IF Len(x) # Elems(o) THEN [status |-> "ValueError", val |-> <<>>]
    ELSE IF cur.u = Unset THEN [status |-> "AttributeError", val |-> <<>>]
    ELSE [status |-> "ok", val |-> Graded(o, cur.u, x)]

\* con = np.array([0.4*self.Lx*self.Ly - self.mass(x[:])]).
ConValue(o, x) == << FSub(FMul(FMul(FDec(4, 1), o.Lx), o.Ly), mass(o, x)) >>

Cur == [K |-> K, LU |-> LU, u |-> u]
NoRet == [op |-> "none", arg |-> <<>>, status |-> "ok", val |-> <<>>]

Init ==
    /\ self = NoObject
    /\ K = Unset
    /\ LU = NoLU
    /\ u = Unset
    /\ ret = NoRet

\* TopoAnalysis(nxelems, nyelems, Lx, Ly, r0, p, E0, nu).
Construct(nxelems, nyelems, Lx, Ly, r0, p, E0, nu) ==
    /\ ~self.built
    /\ self' = NewObject(nxelems, nyelems, Lx, Ly, r0, p, E0, nu)
    /\ ret' = [op |-> "__init__", arg |-> <<nxelems, nyelems, Lx, Ly, r0, p, E0, nu>>,
               status |-> "ok", val |-> <<>>]
    /\ UNCHANGED <<K, LU, u>>

Mass(x) ==
    /\ self.built
    /\ ret' = [op |-> "mass", arg |-> x, status |-> "ok", val |-> <<mass(self, x)>>]
    /\ UNCHANGED <<self, K, LU, u>>

MassGrad(x) ==
    /\ self.built
    /\ ret' = [op |-> "mass_grad", arg |-> x, status |-> "ok",
               val |-> <<mass_grad(self, x)>>]
    /\ UNCHANGED <<self, K, LU, u>>

Compliance(x) ==
    /\ self.built
    /\ \E r \in {compliance(self, Cur, x)} :
          /\ K' = r.K /\ LU' = r.LU /\ u' = r.u
          /\ ret' = [op |-> "compliance", arg |-> x, status |-> r.status,
                     val |-> IF r.status = "ok" THEN <<r.val>> ELSE <<>>]
    /\ UNCHANGED self

ComplianceGrad(x) ==
    /\ self.built
    /\ \E r \in {compliance_grad(self, Cur, x)} :
          ret' = [op |-> "compliance_grad", arg |-> x, status |-> r.status,
                  val |-> IF r.status = "ok" THEN <<r.val>> ELSE <<>>]
    /\ UNCHANGED <<self, K, LU, u>>

\* analyze(E) called directly, E of the right length.
Analyze(E) ==
    /\ self.built
    /\ Len(E) = Elems(self)
    /\ \E r \in {Analyzed(self, E)} :
          /\ K' = r.K
          /\ LU' = IF r.ok THEN r.LU ELSE LU
          /\ u' = IF r.ok THEN r.u ELSE u
          /\ ret' = [op |-> "analyze", arg |-> E,
                     status |-> IF r.ok THEN "ok" ELSE "RuntimeError", val |-> <<>>]
    /\ UNCHANGED self

\* evalObjCon(x): fail = 0, obj = compliance(x), con; an exception of
\* compliance propagates to the caller.
EvalObjCon(x) ==
    /\ self.built
    /\ \E r \in {compliance(self, Cur, x)} :
          /\ K' = r.K /\ LU' = r.LU /\ u' = r.u
          /\ ret' = [op |-> "evalObjCon", arg |-> x, status |-> r.status,
                     val |-> IF r.status = "ok" THEN <<0, r.val, ConValue(self, x)>>
                             ELSE <<>>]
    /\ UNCHANGED self

\* evalObjConGradient(x, g, A): g[:] = compliance_grad(x),
\* A[0][:] = -mass_grad(x), fail = 0 (g and A of the length of x).
EvalObjConGradient(x) ==
    /\ self.built
    /\ \E r \in {compliance_grad(self, Cur, x)} :
          ret' = [op |-> "evalObjConGradient", arg |-> x, status |-> r.status,
                  val |-> IF r.status = "ok"
                          THEN <<0, r.val, [k \in 1..Len(x) |-> FNeg(mass_grad(self, x)[k])]>>
                          ELSE <<>>]
    /\ UNCHANGED <<self, K, LU, u>>

-----------------------------------------------------------------------------
(* Specifications.                                                         *)

\* The arguments of the calls on the current object.
XArgs == IF self.built THEN XValues(Elems(self)) ELSE {}
EArgs == IF self.built THEN EValues(Elems(self)) ELSE {}

\* Evaluation runs: a small mesh, then any sequence of calls.
Next ==
    \/ \E nx \in 1..MaxEvalNx, ny \in 1..MaxEvalNy, h \in EvalR0Halves :
          Construct(nx, ny, FInt(nx), FInt(ny), Half(h), 3, FOne, FDec(3, 1))
    \/ \E x \in XArgs : Mass(x)
    \/ \E x \in XArgs : MassGrad(x)
    \/ \E x \in XArgs : Compliance(x)
    \/ \E x \in XArgs : ComplianceGrad(x)
    \/ \E E \in EArgs : Analyze(E)
    \/ \E x \in XArgs : EvalObjCon(x)
    \/ \E x \in XArgs : EvalObjConGradient(x)

Spec == Init /\ [][Next]_vars

\* Construction runs: every mesh, radius, penalty and Poisson ratio.
NextCtor ==
    \E nx \in 1..MaxNx, ny \in 1..MaxNy, h \in R0Halves, p \in {1, 3},
       nu \in {FDec(25, 2), FDec(3, 1)} :
          Construct(nx, ny, FInt(nx), FInt(ny), Half(h), p, FOne, nu)

SpecCtor == Init /\ [][NextCtor]_vars

-----------------------------------------------------------------------------
(* Properties.                                                             *)

\* The analysis of the filtered density of x on the current object.
FreshAnalysis(x) == Analyzed(self, Modulus(self, FilterDot(self, x)))

\* The last call was the gradient evaluation op on a density vector of the
\* right length.
GradientCall(op) == self.built /\ ret.op = op /\ Len(ret.arg) = Elems(self)

\* C1: a gradient evaluation evalObjConGradient(x) is self-contained: when the
\* analysis of the filtered density of x succeeds, the evaluation succeeds and
\* the displacement field it read is the one solved for that x, whatever was
\* called before.
GradientSelfContained ==
    (GradientCall("evalObjConGradient") /\ FreshAnalysis(ret.arg).ok)
        => (ret.status = "ok" /\ u = FreshAnalysis(ret.arg).u)

\* The row and the column b of the matrix M are zero except M[b][b] = 1.
IdentityAt(M, b) ==
    \A c \in DOMAIN M :
        /\ M[b][c] = (IF c = b THEN FOne ELSE FZero)
        /\ M[c][b] = (IF c = b THEN FOne ELSE FZero)

\* C2: after analyze, for every boundary DOF b (the u and v DOFs of the nodes
\* of column 0) the row and the column b of K are zero except K[b, b] = 1,
\* f[b] = 0, and the displacement u[b] is exactly 0.
BoundaryEnforced ==
    self.built =>
        \A b \in BcSet(self) :
            /\ self.f[b] = FZero
            /\ K # Unset => IdentityAt(K, b)
            /\ u # Unset => u[b] = FZero

\* An analysis of positive moduli has succeeded on the widest mesh and has
\* moved a free DOF.
BoundaryEnforcedWitness ==
    /\ self.built /\ self.nxelems = MaxEvalNx /\ self.nyelems = MaxEvalNy
    /\ ret.op = "analyze" /\ ret.status = "ok"
    /\ \A k \in 1..Len(ret.arg) : ret.arg[k][1] > 0
    /\ \E d \in DOMAIN u : u[d] # FZero
    /\ \A b \in BcSet(self) : u[b] = FZero

\* The sum of the weights of row e of the filter of the current object.
RowSum(e) == FSumSeq([c \in 1..Elems(self) |-> self.F[e][c - 1]])

\* The number of nonzero weights of row e.
RowCount(e) == Cardinality({ c \in 0..(Elems(self) - 1) : self.F[e][c] # FZero })

\* The tolerance on a row sum: half a unit of the third decimal.
SumTol == FDec(5, 3)

\* C3: for r0 > 0 every row of F has non-negative weights whose sum is 1
\* within SumTol, the rows of the elements on the domain boundary included.
FilterRowStochastic ==
    (self.built /\ self.r0[1] > 0) =>
        \A e \in 0..(Elems(self) - 1) :
            /\ \A c \in 0..(Elems(self) - 1) : self.F[e][c][1] >= 0
            /\ ~FLt(SumTol, FAbs(FSub(RowSum(e), FOne)))

\* The widest mesh with r0 = 1.5: the corner row 0 is clipped to 4 weights,
\* the row of the interior element (1, 1) has 9, and both sum to 1.
FilterRowStochasticWitness ==
    /\ self.built /\ self.nxelems = MaxNx /\ self.nyelems = MaxNy
    /\ self.r0 = Half(3)
    /\ RowCount(0) = 4 /\ RowCount(MaxNx + 1) = 9
    /\ ~FLt(SumTol, FAbs(FSub(RowSum(0), FOne)))
    /\ ~FLt(SumTol, FAbs(FSub(RowSum(MaxNx + 1), FOne)))

\* 4 times the squared distance between the grid positions of e and e2.
Dist2x4(nx, e, e2) ==
    LET di == (e % nx) - (e2 % nx)
        dj == (e \div nx) - (e2 \div nx)
    IN  4 * (di * di + dj * dj)

\* The elements at distance < r0 = h/2 of e (exactly: 4 d^2 < h^2), ascending.
Disc(nx, ny, h, e) ==
    SelectSeq(Range0(nelems(nx, ny)), LAMBDA e2 : h > 0 /\ Dist2x4(nx, e, e2) < h * h)

\* (r0 - r)/r0 for the distance r between e and e2.
DiscWeight(nx, r0, e, e2) ==
    FDiv(FSub(r0, FSqrt(FInt(Dist2x4(nx, e, e2) \div 4))), r0)

\* The radius of the constructor call in halves (r0 = h/2).
CtorHalves == CHOOSE h \in R0Halves : Half(h) = self.r0

\* C4: for r0 > 0, F[e, e2] is nonzero exactly when the distance between e and
\* e2 is < r0, and it is the raw weight (r0 - r)/r0 divided by the sum of the
\* raw weights of the elements at distance < r0.
FilterSupportIsDisc ==
    (self.built /\ self.r0[1] > 0) =>
        LET nx == self.nxelems
            ny == self.nyelems
            h == CtorHalves
        IN  \A e \in 0..(Elems(self) - 1) :
                LetIn(Disc(nx, ny, h, e), LAMBDA d :
                LetIn(FSumSeq([k \in 1..Len(d) |-> DiscWeight(nx, self.r0, e, d[k])]),
                      LAMBDA total :
                    /\ \A e2 \in 0..(Elems(self) - 1) :
                          (self.F[e][e2] # FZero) <=> (e2 \in SeqRange(d))
                    /\ \A k \in 1..Len(d) :
                          self.F[e][d[k]] = FDiv(DiscWeight(nx, self.r0, e, d[k]), total)))

\* The widest mesh with r0 = 1.5: from the corner 0, the diagonal neighbour
\* (distance sqrt 2) has a weight, and the element two columns away
\* (distance 2, inside the box of half-width 2) has none.
FilterSupportIsDiscWitness ==
    /\ self.built /\ self.nxelems = MaxNx /\ self.nyelems = MaxNy /\ MaxNx >= 3
    /\ self.r0 = Half(3)
    /\ self.F[0][MaxNx + 1] # FZero
    /\ self.F[0][2] = FZero

\* C7: a filter radius r0 <= 0 is rejected at construction: no object with a
\* filter operator exists for such r0.
RadiusRejected == self.built => self.r0[1] > 0

\* C9: the Poisson ratio of the element stiffness kernel is the nu given to
\* the constructor.
PoissonRatioConfigured ==
    (self.built /\ ret.op = "__init__") =>
        /\ self.nu = ret.arg[8]
        /\ compute_kelem(self) = compute_kelem([self EXCEPT !.nu = ret.arg[8]])

\* compliance(x) on the current object, for x of the right length whose
\* analysis succeeds (the objective the finite difference is taken of).
ComplianceAt(x) ==
    ComplianceValue(self, analyze(self, Modulus(self, FilterDot(self, x))).u)

\* The step of the central finite difference.
FdStep == FDec(5, 2)

\* x with FdStep*sign added to the entry of element e.
Perturbed(x, e, sign) ==
    [k \in 1..Len(x) |-> IF k = e + 1 THEN FAdd(x[k], FMul(FInt(sign), FdStep)) ELSE x[k]]

\* (compliance(x + h e) - compliance(x - h e)) / (2 h).
CentralDifference(x, e) ==
    FDiv(FSub(ComplianceAt(Perturbed(x, e, 1)), ComplianceAt(Perturbed(x, e, -1))),
         FMul(FInt(2), FdStep))

\* The largest magnitude among the floats of the sequence s.
RECURSIVE FMaxAbs(_)
FMaxAbs(s) ==
    IF s = <<>> THEN FZero
    ELSE LetIn(FMaxAbs(SubSeq(s, 1, Len(s) - 1)), LAMBDA m :
             IF FAbsLt(m, s[Len(s)]) THEN FAbs(s[Len(s)]) ELSE m)

\* The gradient g agrees with the finite differences fd: every component
\* within a quarter of the largest finite difference.
GradientMatches(g, fd) ==
    LetIn(FMul(FDec(25, 2), FMaxAbs(fd)), LAMBDA tol :
        \A k \in 1..Len(fd) : ~FLt(tol, FAbs(FSub(g[k], fd[k]))))

\* x lies in [x_min, 1]^n with x_min = 1e-3.
InBounds(x) ==
    \A k \in 1..Len(x) : ~FLt(x[k], FDec(1, 3)) /\ ~FLt(FOne, x[k])

\* C5: for x in [x_min, 1]^n, every component of the gradient returned by
\* compliance_grad(x) matches the central finite difference of compliance
\* with respect to the density of that element.
GradientIsDerivative ==
    (GradientCall("compliance_grad") /\ ret.status = "ok" /\ InBounds(ret.arg)) =>
        GradientMatches(ret.val[1],
                        [k \in 1..Len(ret.arg) |-> CentralDifference(ret.arg, k - 1)])

\* The gradient on a displacement field solved for the same x does match
\* (the code's behaviour when compliance(x) is called right before).
GradientIsDerivativeWhenFresh ==
    (GradientCall("compliance_grad") /\ ret.status = "ok" /\ InBounds(ret.arg)
       /\ u = FreshAnalysis(ret.arg).u) =>
        GradientMatches(ret.val[1],
                        [k \in 1..Len(ret.arg) |-> CentralDifference(ret.arg, k - 1)])

\* K, LU and u are those of one successful analysis of the current object.
OneAnalysis ==
    \E E \in Moduli(self) :
        /\ Analyzed(self, E).ok
        /\ K = Analyzed(self, E).K /\ LU = Analyzed(self, E).LU /\ u = Analyzed(self, E).u

\* C6: an evaluation whose factorization fails is signalled to the caller,
\* returns no value, and never leaves a new stiffness matrix beside the
\* factorization and displacement field of an earlier evaluation.
AllOrNothing ==
    self.built =>
        /\ (ret.op \in {"compliance", "evalObjCon"} /\ Len(ret.arg) = Elems(self)
              /\ ~FreshAnalysis(ret.arg).ok)
               => (ret.status = "RuntimeError" /\ ret.val = <<>>)
        /\ (K # Unset /\ u # Unset) => OneAnalysis

\* The operations that take a density vector x.
DensityOps ==
    {"mass", "mass_grad", "compliance", "compliance_grad", "evalObjCon",
     "evalObjConGradient"}

\* C8: every operation that takes a density vector rejects an x whose length
\* differs from the element count with an error and returns no value.
LengthChecked ==
    (self.built /\ ret.op \in DensityOps /\ Len(ret.arg) # Elems(self)) =>
        (ret.status # "ok" /\ ret.val = <<>>)

\* The position of the DOF d among the 8 DOFs ev of an element.
DofSlot(ev, d) == CHOOSE a \in 1..8 : ev[a] = d

\* The contributions E[k]*kelem[a, b] to the entry (r, c), over the elements k
\* that have r as a-th and c as b-th DOF, in ascending k.
EntryTerms(o, kelem, E, r, c) ==
    LetIn(elem_vars(o.nxelems, o.nyelems), LAMBDA ev :
    LetIn(SelectSeq(Range0(Elems(o)),
                    LAMBDA k : r \in SeqRange(ev[k]) /\ c \in SeqRange(ev[k])),
          LAMBDA ks :
              [n \in 1..Len(ks) |->
                  FMul(E[ks[n] + 1],
                       kelem[DofSlot(ev[ks[n]], r)][DofSlot(ev[ks[n]], c)])]))

\* C10: before the boundary conditions are applied, every entry K[r, c] of
\* the matrix analyze(E) assembles is the sum of E[k]*kelem[a, b] over the
\* elements k that have r as a-th and c as b-th DOF (0 when there is none),
\* and the entries of self.K off the boundary DOFs are those sums.
AssemblyIsScatterSum ==
    (self.built /\ ret.op = "analyze") =>
        LetIn(compute_kelem(self), LAMBDA kelem :
        LetIn(Assemble(self, ret.arg), LAMBDA A :
            \A r \in DOMAIN A, c \in DOMAIN A :
                LetIn(FSumSeq(EntryTerms(self, kelem, ret.arg, r, c)), LAMBDA sum :
                    /\ A[r][c] = sum
                    /\ (r \notin BcSet(self) /\ c \notin BcSet(self)) => K[r][c] = sum)))

\* analyze has run on the mesh of 2 x 2 elements: the four elements share the
\* pair of DOFs (8, 8) of the centre node and all contribute to K[8, 8], and
\* the pair (0, 17) of two opposite corners is shared by no element.
AssemblyIsScatterSumWitness ==
    /\ self.built /\ self.nxelems = 2 /\ self.nyelems = 2
    /\ ret.op = "analyze" /\ ret.status = "ok"
    /\ LetIn(EntryTerms(self, compute_kelem(self), ret.arg, 8, 8), LAMBDA terms :
          /\ Len(terms) = 4
          /\ \A n \in 1..4 : terms[n] # FZero
          /\ K[8][8] = FSumSeq(terms))
    /\ Len(EntryTerms(self, compute_kelem(self), ret.arg, 0, 17)) = 0
    /\ K[0][17] = FZero

\* The u DOF of the node of row j and column i; its v DOF is the next index.
NodeDof(nx, j, i) == 2 * (j * (nx + 1) + i)

\* The (u, v) pairs of the corners of element (i, j) in the order bottom-left,
\* bottom-right, top-left, top-right.
CornerDofs(nx, i, j) ==
    << NodeDof(nx, j, i),         NodeDof(nx, j, i) + 1,
       NodeDof(nx, j, i + 1),     NodeDof(nx, j, i + 1) + 1,
       NodeDof(nx, j + 1, i),     NodeDof(nx, j + 1, i) + 1,
       NodeDof(nx, j + 1, i + 1), NodeDof(nx, j + 1, i + 1) + 1 >>

\* C11: the 8 DOF indices of every element (i, j) are the (u, v) pairs of its
\* corner nodes in the order bottom-left, bottom-right, top-left, top-right,
\* node (row j, column i) owning 2*(j*(nx+1)+i) and the next index; they are
\* pairwise distinct and lie in [0, 2*(nx+1)*(ny+1)), and every DOF belongs
\* to at least one element.
ElementConnectivity ==
    self.built =>
        LET nx == self.nxelems
            ny == self.nyelems
        IN  LetIn(elem_vars(nx, ny), LAMBDA ev :
                /\ DOMAIN ev = 0..(nx * ny - 1)
                /\ \A i \in 0..(nx - 1), j \in 0..(ny - 1) :
                      /\ ev[i + j * nx] = CornerDofs(nx, i, j)
                      /\ Cardinality(SeqRange(ev[i + j * nx])) = 8
                      /\ SeqRange(ev[i + j * nx]) \subseteq 0..(2 * (nx + 1) * (ny + 1) - 1)
                /\ \A d \in 0..(2 * (nx + 1) * (ny + 1) - 1) :
                      \E e \in DOMAIN ev : d \in SeqRange(ev[e])
                /\ nvars(nx, ny) = 2 * (nx + 1) * (ny + 1))

\* The mesh of 3 x 3 elements: the interior element (1, 1) has the DOFs of the
\* nodes 5, 6, 9, 10 in that order, and the DOF 10 of node 5 belongs to the
\* four elements 0, 1, 3, 4 around it.
ElementConnectivityWitness ==
    /\ self.built /\ self.nxelems = 3 /\ self.nyelems = 3
    /\ elem_vars(3, 3)[4] = <<10, 11, 12, 13, 18, 19, 20, 21>>
    /\ { e \in 0..8 : 10 \in SeqRange(elem_vars(3, 3)[e]) } = {0, 1, 3, 4}

=============================================================================
